---- MODULE Spec2Model ----
(***************************************************************************)
(* Voice-interaction controller of the robot (python/ai-chatbot.py).       *)
(*                                                                         *)
(* The program runs one listener thread (AIChatBot.wake_word_loop) and one *)
(* thread per socket connection (AIChatBot.socket_handler).  All of them   *)
(* read and write the fields of the single AIChatBot object without any    *)
(* lock.  Each thread is modelled by a program counter pc[t]; one action   *)
(* is one group of consecutive statements of one thread.  A blocking       *)
(* external call (recognition, inference, speech render, camera) is a pc   *)
(* value of its own: the thread stays there while the call runs and the    *)
(* action that leaves it is the call returning, failing or timing out.     *)
(*                                                                         *)
(* Time is counted in ticks of half a second (TicksPerSecond).  Every       *)
(* timestamp the program stores is kept relative to the present instant:   *)
(* time.time() is 0, a timestamp in the future is positive, one in the     *)
(* past negative, and the passing of one tick (Tick) moves every stored    *)
(* timestamp one tick into the past.  A timestamp that lies further back   *)
(* than any comparison of the program can tell apart stays at that floor.  *)
(***************************************************************************)
EXTENDS Integers, Sequences, FiniteSets, TLC

\* ------------------------------------------------------------------ bounds
NumWorkers == 2          \* socket connections handled at the same time
MaxBuf == 1              \* blocks buffered in one recording
MaxCommands == 2         \* socket connections arriving in one concurrent run
MaxChunk == 2            \* frames of one block after resampling (for 1280)
MaxSample == 2           \* largest sample value (for 32767)
NumPhrases == 2          \* wake phrases a prediction reports on

\* ----------------------------------------------------- configuration values
MaxHistoryMessages == 2  \* behavior.max_history_messages
ChatHistoryTimeout == 0  \* behavior.chat_history_timeout, in ticks (short)
MaxRecordingTime == 2    \* wake_word.max_recording_time, in ticks
SilenceThreshold == 1    \* wake_word.silence_threshold, in ticks

\* -------------------------------------------------------- program constants
TicksPerSecond == 2
Threshold == 5           \* wake_word.threshold 0.5, in tenths
TtsCooldown == 3         \* cooldown_seconds = 1.5
EmptyCooldown == 2       \* time.time() + 1.0
K1RecordingDuration == 20 \* recording_duration = 10.0
MinFileSize == 1000      \* file_size < 1000
MinAnswerLength == 10    \* len(answer) > 10
WavHeaderBytes == 44     \* header written by wave.open(..., 'wb')
BlockSamples == 3840     \* 1280 * DECIMATION_FACTOR samples per stream.read
DecimationFactor == 3    \* NATIVE_RATE // TARGET_RATE
FrameSize == 320         \* FRAME_SIZE, samples per 20 ms sub-frame
NoTime == -100           \* None in recording_start_time / last_speech_time
now == 0                 \* time.time(), the origin of all stored timestamps

\* The earliest values the stored timestamps are followed to.  The epoch
\* tts_cooldown_until = 0 of __init__ is such a long-past time.
CooldownFloor == now - 1
SpeechFloor == now - SilenceThreshold
RenderFloor == CooldownFloor - 1

\* ------------------------------------------------------------------ threads
Listener == 0
Workers == 1..NumWorkers
Threads == {Listener} \cup Workers

\* State(Enum)
WAKE_LISTENING == "wake_listening"
WAKE_DETECTED == "wake_detected"
IDLE == "idle"
LISTENING == "listening"
TRANSCRIBING == "transcribing"
ANSWERING == "answering"
SPEAKING == "speaking"
CAMERA == "camera"
States ==
  {WAKE_LISTENING, WAKE_DETECTED, IDLE, LISTENING, TRANSCRIBING, ANSWERING,
   SPEAKING, CAMERA}

\* Requests a socket client may send (the last one is no known command).
KnownCommands ==
  {"START_RECORDING", "STOP_RECORDING", "CAMERA_CAPTURE", "STATUS", "RESET"}
Commands == KnownCommands \cup {"BOGUS"}

\* Confidence scores the spotting model may report, in tenths: one at the
\* threshold and one above it.
Scores == {Threshold, Threshold + 1}

\* What oww_model.predict returns: a confidence for each wake phrase.
Predictions == UNION {[1..n -> Scores] : n \in 1..NumPhrases}

\* "max(prediction.values())"
MaxScore(prediction) ==
  CHOOSE s \in Scores :
    /\ \E p \in DOMAIN prediction : prediction[p] = s
    /\ \A p \in DOMAIN prediction : prediction[p] <= s

\* Transcripts the recognition engine may return.
Transcripts ==
  {"what time is it", "set volume to fifty", "take a picture", "shut down",
   "hello robot"}

\* What the recognition call may yield: a transcript, no text, a failure.
Recognitions == Transcripts \cup {"", "error"}

\* What the inference service may answer to a request that declares tools:
\* a message without tool calls, an empty list of tool calls, one call of a
\* declared tool, or a failure.
ToolResponses ==
  {"none", "empty", "take_picture", "shutdown_system", "set_volume",
   "get_current_time", "get_current_date", "error"}

\* Lengths of the stripped answers the inference service may give.
AnswerLengths == {0, MinAnswerLength, MinAnswerLength + 1}

\* What the vision call may yield.
Descriptions == {"description", "", "error"}

VARIABLES
  state,                  \* self.state
  is_recording,           \* self.is_recording
  audio_buffer,           \* self.audio_buffer, one entry per block
  recording_start_time,   \* self.recording_start_time
  recording_duration,     \* self.recording_duration
  vad,                    \* self.vad is not None
  last_speech_time,       \* self.last_speech_time
  speech_started,         \* self.speech_started
  conversation_history,   \* self.conversation_history (roles)
  last_interaction_time,  \* self.last_interaction_time
  wake_word_paused,       \* self.wake_word_paused
  tts_cooldown_until,     \* self.tts_cooldown_until
  wake_word_enabled,      \* config wake_word.enabled
  camera_enabled,         \* config camera.enable
  vad_enabled,            \* config wake_word.vad_enabled and VAD_AVAILABLE
  use_network_ollama,     \* self.use_network_ollama
  chat_history_timeout,   \* config behavior.chat_history_timeout, in ticks
  max_blocks,             \* blocks one recording may buffer in this run
  native,                 \* samples of a block as read (audio_array_48k)
  feeds,                  \* what was computed from them for each consumer
  wake_word_running,      \* self.wake_word_running
  main,                   \* position of the main thread
  socket_path,            \* the socket file SOCKET_PATH exists
  question,               \* words of the transcript given to stage 1
  command_category,       \* what detect_command_category returned
  tool_call,              \* the tool call the stage-2 answer contains
  executed,               \* calls execute_tool has run, in order
  spoken,                 \* text given to speak_answer for the results
  motors,                 \* motor service: what the two motor channels do
  is_moving_forward,      \* self.is_moving_forward
  explore_mode,           \* self.explore_mode
  avoidance_in_progress,  \* self.avoidance_in_progress
  obstacle_detected,      \* self.obstacle_detected
  obstacle_left,          \* self.obstacle_left
  obstacle_right,         \* self.obstacle_right
  obstacle_behavior,      \* self.obstacle_behavior
  last_turn_was_left,     \* self.last_turn_was_left
  monitor_pc,             \* position of the obstacle-monitoring thread
  behavior,               \* branch perform_obstacle_avoidance has taken
  handler_pc,             \* position of each motor socket_handler thread
  action,                 \* command.get("action") of each handler thread
  last_command,           \* history: the command whose handler acted last
  motor_connections_left, \* motor connections that may still arrive
  pc,                     \* position of every thread
  cmd,                    \* request read by a connection thread
  resp,                   \* response a connection thread has produced
  max_score,              \* listener: max(prediction.values()), 0 outside
                          \* the iteration that computed it
  render_end,             \* history: time the latest speech render ended
  connections_left        \* connections that may still arrive in this run

vars ==
  <<state, is_recording, audio_buffer, recording_start_time,
    recording_duration, vad, last_speech_time, speech_started,
    conversation_history, last_interaction_time, wake_word_paused,
    tts_cooldown_until, wake_word_enabled, camera_enabled, vad_enabled,
    use_network_ollama, chat_history_timeout, max_blocks, native, feeds, wake_word_running,
    main, socket_path, question, command_category, tool_call, executed,
    spoken, motors, is_moving_forward, explore_mode, avoidance_in_progress,
    obstacle_detected, obstacle_left, obstacle_right, obstacle_behavior,
    last_turn_was_left, monitor_pc, behavior, handler_pc, action, last_command,
    motor_connections_left, pc, cmd, resp, max_score, render_end,
    connections_left>>

rec_vars ==
  <<is_recording, audio_buffer, recording_start_time, recording_duration>>
vad_vars == <<vad, last_speech_time, speech_started>>
hist_vars == <<conversation_history, last_interaction_time>>
mute_vars == <<wake_word_paused, tts_cooldown_until>>
\* Sample values are followed only in SpecResample; elsewhere a block is
\* represented by its number and these stay empty.
sample_vars == <<native, feeds>>
\* The command dispatch is followed on words and arguments only in
\* SpecTools; elsewhere a transcript is one of Transcripts and these stay
\* empty.
tool_vars == <<question, command_category, tool_call, executed, spoken>>
\* The motor service (motor_controller.py) is a process of its own; it runs
\* in SpecMotor and stays as constructed elsewhere.
motor_vars ==
  <<motors, is_moving_forward, explore_mode, avoidance_in_progress,
    obstacle_detected, obstacle_left, obstacle_right, obstacle_behavior,
    last_turn_was_left, monitor_pc, behavior, handler_pc, action, last_command,
    motor_connections_left>>

\* Fixed while the service runs: the configuration, and the main thread in
\* its accept loop with the socket file in place.
fixed_vars ==
  <<wake_word_enabled, camera_enabled, vad_enabled, use_network_ollama,
    chat_history_timeout, max_blocks, sample_vars, tool_vars, motor_vars,
    main, socket_path>>

\* The above and the loop flag of the listener, which the listener sets once
\* when it has started.
config_vars == <<fixed_vars, wake_word_running>>
local_vars == <<cmd, resp, max_score>>

\* What a connection thread sends back: the text "OK", or for STATUS the
\* document {state, conversation_length}; NoResponse before it has any.
NoResponse == [text |-> "", state |-> "", conversation_length |-> 0]
Ok == [text |-> "OK", state |-> "", conversation_length |-> 0]

\* AIChatBot.__init__ and AIChatBot.run, under a configuration.
Configured(wake, camera, detector, connections) ==
  /\ state = IDLE
  /\ is_recording = FALSE
  /\ audio_buffer = <<>>
  /\ recording_start_time = NoTime
  /\ recording_duration = 5 * TicksPerSecond
  /\ vad = FALSE
  /\ last_speech_time = NoTime
  /\ speech_started = FALSE
  /\ conversation_history = <<>>
  /\ last_interaction_time = now
  /\ wake_word_paused = FALSE
  /\ tts_cooldown_until = CooldownFloor
  /\ wake_word_enabled = wake
  /\ camera_enabled = camera
  /\ vad_enabled = detector
  /\ wake_word_running = FALSE
  /\ main = "serving"
  /\ socket_path = TRUE
  /\ pc = [t \in Threads |->
            IF t = Listener THEN IF wake THEN "ww_start" ELSE "off"
                            ELSE "idle"]
  /\ cmd = [t \in Workers |-> ""]
  /\ resp = [t \in Workers |-> NoResponse]
  /\ max_score = 0
  /\ render_end = RenderFloor
  /\ connections_left = connections

\* Nothing computed yet for the spotting model, the voice-activity detector
\* and the recognition file.
NoFeeds == [spotting |-> <<>>, vad |-> <<>>, file |-> <<>>]

NoSamples == native = <<>> /\ feeds = NoFeeds

\* No transcript has been handed to the dispatch yet: answer_question has
\* not run stage 1, lines 453-457.
NoCall == [name |-> "", arguments |-> <<>>]
NoTools ==
  /\ question = <<>>
  /\ command_category = ""
  /\ tool_call = NoCall
  /\ executed = <<>>
  /\ spoken = [template |-> ""]

NumMotorWorkers == 2   \* motor socket_handler threads alive at a time
MaxMotorCommands == 2  \* motor connections in a run

MotorWorkers == 1..NumMotorWorkers

\* obstacle_behavior is "stop_only", "backup" or "backup_and_turn", the
\* values of the three behavior modes of lines 63-65.
\* MotorController.__init__, lines 107-118, the motors as start leaves them
\* (stop, line 196), and obstacle_monitoring_loop about to read the
\* sensors for the first time (line 287).
MotorConstructed(connections) ==
  /\ motors = "stop"
  /\ is_moving_forward = FALSE
  /\ explore_mode = FALSE
  /\ avoidance_in_progress = FALSE
  /\ obstacle_detected = FALSE
  /\ obstacle_left = FALSE
  /\ obstacle_right = FALSE
  /\ obstacle_behavior = "backup_and_turn"
  /\ last_turn_was_left = FALSE
  /\ monitor_pc = "read"
  /\ behavior = ""
  /\ handler_pc = [t \in MotorWorkers |-> "idle"]
  /\ action = [t \in MotorWorkers |-> ""]
  /\ last_command = ""
  /\ motor_connections_left = connections

\* Any configuration of wake word and camera, with the timer stop policy and
\* the short history timeout; one connection arrives in the run.
Init ==
  /\ \E wake \in BOOLEAN, camera \in BOOLEAN :
       Configured(wake, camera, FALSE, 1)
  /\ chat_history_timeout = ChatHistoryTimeout
  /\ max_blocks = MaxBuf
  /\ NoSamples
  /\ NoTools
  /\ MotorConstructed(0)
  /\ use_network_ollama = FALSE

\* The same with more connections, so that a request can arrive while
\* another connection's thread is inside a blocking call.
InitConcurrent ==
  /\ \E wake \in BOOLEAN, camera \in BOOLEAN :
       Configured(wake, camera, FALSE, MaxCommands)
  /\ chat_history_timeout = ChatHistoryTimeout
  /\ max_blocks = MaxBuf
  /\ NoSamples
  /\ NoTools
  /\ MotorConstructed(0)
  /\ use_network_ollama = FALSE

\* A history timeout that the next spoken turn can stay within: after an
\* answer was spoken, the next wake word is accepted once the cooldown has
\* passed (line 916) and its recording runs for max_recording_time.
LongHistoryTimeout == ChatHistoryTimeout + TtsCooldown + MaxRecordingTime

\* The wake-word configurations with the long history timeout, in which the
\* spoken turns of one conversation follow each other; one socket request
\* arrives.
InitTurns ==
  /\ \E camera \in BOOLEAN : Configured(TRUE, camera, FALSE, 1)
  /\ chat_history_timeout = LongHistoryTimeout
  /\ max_blocks = MaxBuf
  /\ NoSamples
  /\ NoTools
  /\ MotorConstructed(0)
  /\ use_network_ollama = FALSE

\* The wake-word configurations under either stop policy, with room for a
\* block after the one in which speech is observed; one socket request
\* arrives.
InitDetector ==
  /\ \E camera \in BOOLEAN, detector \in BOOLEAN :
       Configured(TRUE, camera, detector, 1)
  /\ chat_history_timeout = ChatHistoryTimeout
  /\ max_blocks = MaxBuf + 1
  /\ NoSamples
  /\ NoTools
  /\ MotorConstructed(0)
  /\ use_network_ollama = FALSE

\* Sample values: np.int16, here the not negative ones up to MaxSample.
Samples == 0..MaxSample

\* stream.read(1280 * DECIMATION_FACTOR): a block holds DECIMATION_FACTOR
\* native samples for each frame it has after resampling.
NativeBlocks ==
  UNION {[1..(chunk * DecimationFactor) -> Samples] : chunk \in 1..MaxChunk}

\* The robot with one block of known samples read from the stream.
InitResample ==
  /\ Configured(TRUE, FALSE, TRUE, 0)
  /\ chat_history_timeout = ChatHistoryTimeout
  /\ max_blocks = MaxBuf
  /\ native \in NativeBlocks
  /\ feeds = NoFeeds
  /\ NoTools
  /\ MotorConstructed(0)
  /\ use_network_ollama = FALSE

\* The resting state every path returns to:
\* "if self.wake_word_enabled: WAKE_LISTENING else: IDLE".
RestState == IF wake_word_enabled THEN WAKE_LISTENING ELSE IDLE

Goto(t, label) == pc' = [pc EXCEPT ![t] = label]

\* The function called by thread t returns to its caller: the listener
\* continues its loop iteration at the wake-word check (line 907), a
\* connection thread reaches "return "OK"" of handle_command (line 985).
Return(t) ==
  /\ pc' = [pc EXCEPT ![t] = IF t = Listener THEN "ww_check" ELSE "ret"]
  /\ resp' = IF t = Listener THEN resp ELSE [resp EXCEPT ![t] = Ok]

\* The earliest value last_interaction_time is followed to: one tick beyond
\* the history timeout.
InteractionFloor == now - (chat_history_timeout + 1)

\* Timestamp ts one tick later, seen from the new present.
Earlier(ts, floor) ==
  IF ts = NoTime THEN NoTime ELSE IF ts - 1 < floor THEN floor ELSE ts - 1

\* Positions at which a thread waits: for a connection, for the next block
\* of the stream, or for an external call to return.
Waiting ==
  {"off", "idle", "read", "recognize", "llm_tools", "llm_chat", "tool_speak",
   "render", "cam_shot", "vision"}

\* time.time() advances by one tick.  The statements between two waits of a
\* thread take no time: the clock advances only while every thread waits.
\* recording_start_time is read only while a recording is active and is
\* assigned whenever one starts, so outside a recording it is not followed.
Tick ==
  /\ \A t \in Threads : pc[t] \in Waiting
  /\ tts_cooldown_until' = Earlier(tts_cooldown_until, CooldownFloor)
  /\ recording_start_time' =
       IF is_recording
         THEN Earlier(recording_start_time, now - recording_duration)
         ELSE NoTime
  /\ last_speech_time' = Earlier(last_speech_time, SpeechFloor)
  /\ last_interaction_time' = Earlier(last_interaction_time, InteractionFloor)
  /\ render_end' = Earlier(render_end, RenderFloor)
  /\ UNCHANGED <<state, is_recording, audio_buffer, recording_duration, vad,
                 speech_started, conversation_history, wake_word_paused,
                 config_vars, pc, local_vars, connections_left>>

\* ------------------------------------------------- listener thread
\* wake_word_loop, lines 847-849: the thread has opened the stream.
WakeWordStart ==
  /\ pc[Listener] = "ww_start"
  /\ state' = WAKE_LISTENING
  /\ wake_word_running' = TRUE
  /\ Goto(Listener, "read")
  /\ UNCHANGED <<rec_vars, vad_vars, hist_vars, mute_vars, fixed_vars,
                 local_vars, render_end, connections_left>>

\* Samples of one block after decimation: len(audio_array_48k[::3]).
DecimatedLen == (BlockSamples + DecimationFactor - 1) \div DecimationFactor

\* Start offsets of the 20 ms sub-frames of one decimated block.
SubFrames == {i \in 0..(DecimatedLen - 1) : i % FrameSize = 0}

\* range(0, len(audio_16k) - FRAME_SIZE, FRAME_SIZE): the sub-frames the loop
\* hands to vad.is_speech.
CheckedSubFrames == {i \in SubFrames : i < DecimatedLen - FrameSize}

\* The detector is consulted only while a recording with a detector runs;
\* speech is the set of sub-frames it would classify as speech.
SpeechInputs == IF is_recording /\ vad THEN SUBSET SubFrames ELSE {{}}

\* "elapsed > self.recording_duration"
MaxTimeExceeded(elapsed) == elapsed > recording_duration

\* "elapsed >= self.recording_duration"
MaxTimeReached(elapsed) == elapsed >= recording_duration

\* "self.speech_started and silence_duration >= silence_threshold", on the
\* values the iteration has just written.
EndOfSpeech(started, last) == started /\ now - last >= SilenceThreshold

\* wake_word_loop, lines 854-904: read one block; while a recording is
\* active append it and decide whether the recording ends.
ReadBlock(speech) ==
  /\ pc[Listener] = "read"
  /\ wake_word_running
  /\ IF is_recording
       THEN /\ Len(audio_buffer) < max_blocks
            /\ audio_buffer' = Append(audio_buffer, Len(audio_buffer) + 1)
            /\ IF vad
                 THEN LET is_speech == speech \cap CheckedSubFrames # {}
                          last == IF is_speech THEN now ELSE last_speech_time
                          started == speech_started \/ is_speech
                      IN /\ last_speech_time' = last
                         /\ speech_started' = started
                         /\ IF \/ EndOfSpeech(started, last)
                               \/ MaxTimeReached(now - recording_start_time)
                              THEN Goto(Listener, "stop_rec")
                              ELSE Goto(Listener, "ww_check")
                 ELSE /\ UNCHANGED <<last_speech_time, speech_started>>
                      /\ IF MaxTimeReached(now - recording_start_time)
                           THEN Goto(Listener, "stop_rec")
                           ELSE Goto(Listener, "ww_check")
       ELSE /\ Goto(Listener, "ww_check")
            /\ UNCHANGED <<audio_buffer, last_speech_time, speech_started>>
  /\ UNCHANGED <<state, is_recording, recording_start_time,
                 recording_duration, vad, hist_vars, mute_vars, config_vars,
                 local_vars, render_end, connections_left>>

\* "self.state == State.WAKE_LISTENING and not self.wake_word_paused"
ListenerMayAct == state = WAKE_LISTENING /\ ~wake_word_paused

\* wake_word_loop, lines 907-912: the guard of the detection branch and the
\* call of the spotting model, whose highest score is s.
WakeCheck(s) ==
  /\ pc[Listener] = "ww_check"
  /\ IF ListenerMayAct
       THEN /\ max_score' = s
            /\ Goto(Listener, "ww_decide")
       ELSE /\ Goto(Listener, "read")
            /\ UNCHANGED max_score
  /\ UNCHANGED <<state, rec_vars, vad_vars, hist_vars, mute_vars, config_vars,
                 cmd, resp, render_end, connections_left>>

\* The cooldown comparison with its operands exchanged.
InCooldownInverted == tts_cooldown_until < now

\* "time.time() < self.tts_cooldown_until"
InCooldown == now < tts_cooldown_until

\* "max_score >= threshold"
DetectedAtThreshold(score) == score >= Threshold

\* "max_score > threshold"
Detected(score) == score > Threshold

\* wake_word_loop, lines 916-934, and wake_word_detected_handler, lines
\* 760-761: discard the prediction during the cooldown; otherwise compare it
\* with the threshold and, above it, raise the wake-detected event.
WakeDecide ==
  /\ pc[Listener] = "ww_decide"
  /\ IF ~InCooldown /\ Detected(max_score)
       THEN /\ state' = WAKE_DETECTED
            /\ Goto(Listener, "handler_rec")
            /\ UNCHANGED max_score
       ELSE /\ Goto(Listener, "read")
            /\ max_score' = 0
            /\ UNCHANGED state
  /\ UNCHANGED <<rec_vars, vad_vars, hist_vars, mute_vars, config_vars, cmd,
                 resp, render_end, connections_left>>

\* wake_word_detected_handler, lines 772-794: arm the detector, start the
\* recording, enter LISTENING.
WakeStartRecording ==
  /\ pc[Listener] = "handler_rec"
  /\ vad' = vad_enabled
  /\ IF vad_enabled
       THEN /\ last_speech_time' = now
            /\ speech_started' = FALSE
       ELSE UNCHANGED <<last_speech_time, speech_started>>
  /\ audio_buffer' = <<>>
  /\ recording_start_time' = now
  /\ is_recording' = TRUE
  /\ recording_duration' = MaxRecordingTime
  /\ state' = LISTENING
  /\ max_score' = 0
  /\ Goto(Listener, "read")
  /\ UNCHANGED <<hist_vars, mute_vars, config_vars, cmd, resp, render_end,
                 connections_left>>

\* ------------------------------------- the pipeline, run by any thread
\* speak_answer, lines 578-587: enter SPEAKING, mute the listener, start the
\* speech render.
SpeakAnswer(t) ==
  /\ state' = SPEAKING
  /\ wake_word_paused' = TRUE
  /\ Goto(t, "render")

\* ------------------------------------------- stage 1: command category
\* Transcripts are followed as sequences of lower-case words separated by
\* single blanks.  No word of the vocabulary contains another one, so a
\* pattern matches a transcript exactly when it matches it word by word.
\* The Arabic words are written in Latin letters:
\*   idbit اضبط, alsawt الصوت, ma ما, alwaqt الوقت, altarikh التاريخ,
\*   iltaqit التقط, sura صورة, atfi أطفئ, alnizam النظام, marhaba مرحبا.
EnglishWords ==
  {"set", "turn", "the", "volume", "what", "time", "is", "it", "date",
   "take", "picture", "shut", "down", "off", "hello"}
ArabicWords ==
  {"idbit", "alsawt", "ma", "alwaqt", "altarikh", "iltaqit", "sura", "atfi",
   "alnizam", "marhaba"}

\* "A.*B": a word of A, and a word of B somewhere after it.
Before(w, A, B) ==
  \E i \in DOMAIN w, j \in DOMAIN w : i < j /\ w[i] \in A /\ w[j] \in B

\* "A\s+B": a word of A with a word of B right after it.
Adjacent(w, A, B) ==
  \E i \in DOMAIN w : i + 1 <= Len(w) /\ w[i] \in A /\ w[i + 1] \in B

\* "A\s+(?:o\s+)?B": the same with the word o optionally between them.
AdjacentOpt(w, A, o, B) ==
  \/ Adjacent(w, A, B)
  \/ \E i \in DOMAIN w :
       i + 2 <= Len(w) /\ w[i] \in A /\ w[i + 1] = o /\ w[i + 2] \in B

\* "A.*(?:b\s+c)": a word of A, and the words b c somewhere after it.
BeforePair(w, A, b, c) ==
  \E i \in DOMAIN w, j \in DOMAIN w :
    i < j /\ j + 1 <= Len(w) /\ w[i] \in A /\ w[j] = b /\ w[j + 1] = c

\* The two patterns of each category, lines 69-101.
VolumePattern(w) ==
  \/ AdjacentOpt(w, {"set", "change", "adjust", "make", "turn", "increase",
                     "decrease", "raise", "lower"}, "the", {"volume"})
  \/ Adjacent(w, {"idbit", "ghayyir", "addil", "irfa", "ikhfid", "zawwid",
                  "qallil"}, {"alsawt", "sawt"})
TimePattern(w) ==
  \/ Before(w, {"what", "tell"}, {"time"})
  \/ BeforePair(w, {"time"}, "is", "it")
  \/ Before(w, {"ma", "kam", "akhbirni"}, {"alwaqt", "alsaa"})
  \/ Before(w, {"alwaqt", "alsaa"}, {"alan", "haliyan"})
DatePattern(w) ==
  \/ Before(w, {"what", "tell"}, {"date", "day"})
  \/ BeforePair(w, {"date", "day"}, "is", "it")
  \/ Before(w, {"date", "day"}, {"today"})
  \/ Before(w, {"ma", "kam", "akhbirni"}, {"altarikh", "alyawm"})
CameraPattern(w) ==
  \/ AdjacentOpt(w, {"take", "capture", "use"}, "a",
                 {"picture", "photo", "image", "camera"})
  \/ Before(w, {"what", "describe"}, {"see"})
  \/ Adjacent(w, {"iltaqit", "khudh", "sawwir"}, {"sura", "laqta"})
ShutdownPattern(w) ==
  \/ Adjacent(w, {"shut"}, {"down"})
  \/ \E i \in DOMAIN w : w[i] = "shutdown"
  \/ Adjacent(w, {"power", "turn"}, {"off"})
  \/ \E i \in DOMAIN w : i < Len(w) /\ w[i] \in {"atfi", "aghliq", "awqif"}

\* A classifier that tests the patterns in the opposite order.
CommandCategoryReversed(w) ==
  IF ShutdownPattern(w) THEN "SHUTDOWN_COMMAND"
  ELSE IF CameraPattern(w) THEN "CAMERA_COMMAND"
  ELSE IF DatePattern(w) THEN "DATE_COMMAND"
  ELSE IF TimePattern(w) THEN "TIME_COMMAND"
  ELSE IF VolumePattern(w) THEN "VOLUME_COMMAND"
  ELSE "NONE"

\* system_tools.detect_command_category, lines 55-106, on the words of a
\* transcript: the first category whose pattern matches, "NONE" for None.
CommandCategory(w) ==
  IF VolumePattern(w) THEN "VOLUME_COMMAND"
  ELSE IF TimePattern(w) THEN "TIME_COMMAND"
  ELSE IF DatePattern(w) THEN "DATE_COMMAND"
  ELSE IF CameraPattern(w) THEN "CAMERA_COMMAND"
  ELSE IF ShutdownPattern(w) THEN "SHUTDOWN_COMMAND"
  ELSE "NONE"

\* "text.lower().strip()" on the transcripts of the recognition engine.
WordsOf(text) ==
  CASE text = "set volume to fifty" -> <<"set", "volume", "to", "fifty">>
    [] text = "what time is it" -> <<"what", "time", "is", "it">>
    [] text = "take a picture" -> <<"take", "a", "picture">>
    [] text = "shut down" -> <<"shut", "down">>
    [] text = "hello robot" -> <<"hello", "robot">>

\* system_tools.detect_command_category on the transcripts of the model.
DetectCommandCategory(text) == CommandCategory(WordsOf(text))

\* A trim that keeps the oldest entries, "[:max_history]".
LimitHistoryOldest(h) ==
  IF Len(h) > MaxHistoryMessages THEN SubSeq(h, 1, MaxHistoryMessages) ELSE h

\* "self.conversation_history[-max_history:]" when the history is too long;
\* the slice [-0:] is the whole list.
LimitHistory(h) ==
  IF Len(h) > MaxHistoryMessages /\ MaxHistoryMessages > 0
    THEN SubSeq(h, Len(h) - MaxHistoryMessages + 1, Len(h))
    ELSE h

\* "time.time() - self.last_interaction_time >= timeout"
HistoryTimedOutAtLimit == now - last_interaction_time >= chat_history_timeout

\* "time.time() - self.last_interaction_time > timeout"
HistoryTimedOut == now - last_interaction_time > chat_history_timeout

\* answer_question, lines 429-489: enter ANSWERING, record the user turn,
\* classify the transcript and start the call of the path it selects.
AnswerQuestion(t, text) ==
  /\ state' = ANSWERING
  /\ conversation_history' =
       LimitHistory(Append(IF HistoryTimedOut THEN <<>>
                                              ELSE conversation_history,
                           "user"))
  /\ last_interaction_time' = now
  /\ LET category == DetectCommandCategory(text)
     IN Goto(t, CASE category = "CAMERA_COMMAND" -> "camera"
                  [] category = "NONE" -> "llm_chat"
                  [] OTHER -> "llm_tools")

\* Size of the file save_audio_buffer_to_wav writes: the header and two
\* bytes for each sample scipy.signal.decimate(audio_48k, 3) returns.
FileSize(buffer) ==
  WavHeaderBytes
    + 2 * ((Len(buffer) * BlockSamples + DecimationFactor - 1)
             \div DecimationFactor)

\* A check that lets every recording pass.
AnyAudio(buffer) == TRUE

\* stop_recording, lines 317 and 331-332: there is audio data and the saved
\* file is not "Less than 1KB".
EnoughAudio(buffer) ==
  buffer # <<>> /\ FileSize(buffer) >= MinFileSize

\* stop_recording, lines 309-352, and transcribe_audio, lines 374-379: end
\* the recording; with enough audio saved start the recognition call.  saved
\* is FALSE when writing the file raises.
StopRecording(t, saved) ==
  /\ pc[t] = "stop_rec"
  /\ IF ~is_recording
       THEN /\ Return(t)
            /\ UNCHANGED <<state, is_recording>>
       ELSE /\ is_recording' = FALSE
            /\ IF EnoughAudio(audio_buffer) /\ saved
                 THEN /\ state' = TRANSCRIBING
                      /\ Goto(t, "recognize")
                      /\ UNCHANGED resp
                 ELSE /\ state' = RestState
                      /\ Return(t)
  /\ UNCHANGED <<audio_buffer, recording_start_time, recording_duration,
                 vad_vars, hist_vars, mute_vars, config_vars, cmd, max_score,
                 render_end, connections_left>>

\* transcribe_audio, lines 388-425: the recognition call returns a
\* transcript (answer_question is called), returns no text, or raises.
Recognize(t, r) ==
  /\ pc[t] = "recognize"
  /\ IF r \in Transcripts
       THEN /\ AnswerQuestion(t, r)
            /\ UNCHANGED <<tts_cooldown_until, resp>>
       ELSE /\ IF r = ""
                 THEN IF wake_word_enabled
                        THEN /\ tts_cooldown_until' = now + EmptyCooldown
                             /\ state' = WAKE_LISTENING
                        ELSE /\ state' = IDLE
                             /\ UNCHANGED tts_cooldown_until
                 ELSE /\ state' = IDLE
                      /\ UNCHANGED tts_cooldown_until
            /\ Return(t)
            /\ UNCHANGED hist_vars
  /\ UNCHANGED <<rec_vars, vad_vars, wake_word_paused, config_vars, cmd,
                 max_score, render_end, connections_left>>

\* answer_question, lines 491-529 and 569-573: the stage-2 call returns.
\* Tools other than take_picture and shutdown_system run inside this step.
LlmTools(t, r) ==
  /\ pc[t] = "llm_tools"
  /\ CASE r = "error" \/ r = "empty" ->
            /\ state' = IDLE
            /\ Return(t)
            /\ UNCHANGED <<conversation_history, wake_word_paused>>
       [] r = "take_picture" ->
            /\ Goto(t, "camera")
            /\ UNCHANGED <<state, conversation_history, wake_word_paused,
                           resp>>
       [] r = "shutdown_system" ->
            /\ Goto(t, "tool_speak")
            /\ UNCHANGED <<state, conversation_history, wake_word_paused,
                           resp>>
       [] OTHER ->
            /\ conversation_history' =
                 Append(conversation_history, "assistant")
            /\ SpeakAnswer(t)
            /\ UNCHANGED resp
  /\ UNCHANGED <<rec_vars, vad_vars, last_interaction_time,
                 tts_cooldown_until, config_vars, cmd, max_score, render_end,
                 connections_left>>

\* system_tools.shutdown_system, lines 163-173, called through execute_tool
\* at answer_question line 511, then lines 516-520: the tool's own speech
\* render ends, its result is recorded and spoken.
ToolSpeak(t) ==
  /\ pc[t] = "tool_speak"
  /\ render_end' = now
  /\ conversation_history' = Append(conversation_history, "assistant")
  /\ SpeakAnswer(t)
  /\ UNCHANGED <<rec_vars, vad_vars, last_interaction_time,
                 tts_cooldown_until, config_vars, local_vars, connections_left>>

\* "answer and len(answer) > 10"
ValidAnswer(length) == length > MinAnswerLength

\* answer_question, lines 556-573: the free-form call returns an answer of
\* some length, or raises (failed).
LlmChat(t, failed, length) ==
  /\ pc[t] = "llm_chat"
  /\ IF ~failed /\ ValidAnswer(length)
       THEN /\ conversation_history' =
                 Append(conversation_history, "assistant")
            /\ SpeakAnswer(t)
            /\ UNCHANGED resp
       ELSE /\ state' = IDLE
            /\ Return(t)
            /\ UNCHANGED <<conversation_history, wake_word_paused>>
  /\ UNCHANGED <<rec_vars, vad_vars, last_interaction_time,
                 tts_cooldown_until, config_vars, cmd, max_score, render_end,
                 connections_left>>

\* speak_answer, lines 587-594 and the except clauses 606-612:
\* subprocess.run(['speak', text], timeout=30) returns and the cooldown is
\* set, or it raises (timeout or another error) and the listener is unmuted.
Render(t, completed) ==
  /\ pc[t] = "render"
  /\ render_end' = now
  /\ IF completed
       THEN /\ tts_cooldown_until' = now + TtsCooldown
            /\ Goto(t, "unmute")
            /\ UNCHANGED wake_word_paused
       ELSE /\ wake_word_paused' = FALSE
            /\ Goto(t, "speak_rest")
            /\ UNCHANGED tts_cooldown_until
  /\ UNCHANGED <<state, rec_vars, vad_vars, hist_vars, config_vars,
                 local_vars, connections_left>>

\* speak_answer, line 597.
Unmute(t) ==
  /\ pc[t] = "unmute"
  /\ wake_word_paused' = FALSE
  /\ Goto(t, "speak_rest")
  /\ UNCHANGED <<state, rec_vars, vad_vars, hist_vars, tts_cooldown_until,
                 config_vars, local_vars, render_end, connections_left>>

\* speak_answer, lines 601-604, 609 and 613: back to the resting state.
SpeakRest(t) ==
  /\ pc[t] = "speak_rest"
  /\ state' = RestState
  /\ Return(t)
  /\ UNCHANGED <<rec_vars, vad_vars, hist_vars, mute_vars, config_vars, cmd,
                 max_score, render_end, connections_left>>

\* capture_camera, lines 617-651: nothing when the camera is disabled;
\* otherwise enter CAMERA and run the camera program.
CaptureCamera(t) ==
  /\ pc[t] = "camera"
  /\ IF camera_enabled
       THEN /\ state' = CAMERA
            /\ Goto(t, "cam_shot")
            /\ UNCHANGED resp
       ELSE /\ Return(t)
            /\ UNCHANGED state
  /\ UNCHANGED <<rec_vars, vad_vars, hist_vars, mute_vars, config_vars, cmd,
                 max_score, render_end, connections_left>>

\* capture_camera, lines 632-663, and describe_image, lines 667-683: the
\* camera program is missing, fails or times out (captured FALSE), or the
\* image is taken and describe_image starts the vision call.
CameraShot(t, captured) ==
  /\ pc[t] = "cam_shot"
  /\ IF captured
       THEN /\ state' = ANSWERING
            /\ Goto(t, "vision")
            /\ UNCHANGED resp
       ELSE /\ state' = IDLE
            /\ Return(t)
  /\ UNCHANGED <<rec_vars, vad_vars, hist_vars, mute_vars, config_vars, cmd,
                 max_score, render_end, connections_left>>

\* A vision path without the fallback: the answer of the network backend.
VisionNetworkOnly(network, local) ==
  IF use_network_ollama THEN network ELSE local

\* describe_image, lines 676-736: with a network backend configured its
\* answer is taken, and if that call raises the answer of the local backend;
\* without one the answer of the local backend.
VisionOutcome(network, local) ==
  IF use_network_ollama
    THEN IF network = "error" THEN local ELSE network
    ELSE local

\* The backends describe_image calls, in order.
VisionCalls(network) ==
  IF use_network_ollama
    THEN IF network = "error" THEN <<"network", "local">> ELSE <<"network">>
    ELSE <<"local">>

\* describe_image, lines 676-756: each backend yields a description, an
\* empty description, or raises; a description is spoken, otherwise the
\* state is set to IDLE.
DescribeImage(t, network, local) ==
  /\ pc[t] = "vision"
  /\ IF VisionOutcome(network, local) = "description"
       THEN /\ SpeakAnswer(t)
            /\ UNCHANGED resp
       ELSE /\ state' = IDLE
            /\ Return(t)
            /\ UNCHANGED wake_word_paused
  /\ UNCHANGED <<rec_vars, vad_vars, hist_vars, tts_cooldown_until,
                 config_vars, cmd, max_score, render_end, connections_left>>

\* ------------------------------------------------- connection threads
\* start_socket_server, lines 1012-1018, and socket_handler, lines 989-991:
\* a connection is accepted, its thread reads the request c.  The threads
\* are interchangeable: the new one takes the lowest free number.
Accept(t, c) ==
  /\ pc[t] = "idle"
  /\ \A u \in Workers : u < t => pc[u] # "idle"
  /\ main = "serving"
  /\ connections_left > 0
  /\ connections_left' = connections_left - 1
  /\ cmd' = [cmd EXCEPT ![t] = c]
  /\ Goto(t, "handle")
  /\ UNCHANGED <<state, rec_vars, vad_vars, hist_vars, mute_vars, config_vars,
                 resp, max_score, render_end>>

\* A router that lets a trigger through in every state but SPEAKING.
AtRestOrBusy == state # SPEAKING

\* "self.state == State.IDLE or self.state == State.WAKE_LISTENING"
AtRest == state = IDLE \/ state = WAKE_LISTENING

\* A router that stops the recording in whatever state the request arrives.
WhileListeningUnguarded == TRUE

\* "self.state == State.LISTENING", the guard of STOP_RECORDING
WhileListening == state = LISTENING

\* handle_command, lines 957-985: dispatch on the request.  The guarded
\* functions are entered here and run in the steps that follow; RESET does
\* its first write here (line 978) and its second in ResetRest; an unknown
\* request is complete in this step.
HandleCommand(t) ==
  /\ pc[t] = "handle"
  /\ CASE cmd[t] = "START_RECORDING" ->
            /\ IF AtRest
                 THEN Goto(t, "start_rec") /\ UNCHANGED resp
                 ELSE Return(t)
            /\ UNCHANGED <<state, conversation_history>>
       [] cmd[t] = "STOP_RECORDING" ->
            /\ IF WhileListening
                 THEN Goto(t, "stop_rec") /\ UNCHANGED resp
                 ELSE Return(t)
            /\ UNCHANGED <<state, conversation_history>>
       [] cmd[t] = "CAMERA_CAPTURE" ->
            /\ IF AtRest
                 THEN Goto(t, "camera") /\ UNCHANGED resp
                 ELSE Return(t)
            /\ UNCHANGED <<state, conversation_history>>
       [] cmd[t] = "STATUS" ->
            /\ resp' = [resp EXCEPT ![t] =
                          [text |-> "", state |-> state,
                           conversation_length |-> 0,
                           length_then |-> Len(conversation_history)]]
            /\ Goto(t, "status")
            /\ UNCHANGED <<state, conversation_history>>
       [] cmd[t] = "RESET" ->
            /\ conversation_history' = <<>>
            /\ Goto(t, "reset_rest")
            /\ UNCHANGED <<state, resp>>
       [] OTHER ->
            /\ Return(t)
            /\ UNCHANGED <<state, conversation_history>>
  /\ UNCHANGED <<rec_vars, vad_vars, last_interaction_time, mute_vars,
                 config_vars, cmd, max_score, render_end, connections_left>>

\* handle_command, lines 979-985: the second write of RESET.  The history was
\* emptied at line 978; the log call of line 979 lies between the two writes,
\* so other threads run between them.
ResetRest(t) ==
  /\ pc[t] = "reset_rest"
  /\ state' = RestState
  /\ Return(t)
  /\ UNCHANGED <<rec_vars, vad_vars, hist_vars, mute_vars, config_vars,
                 cmd, max_score, render_end, connections_left>>

\* handle_command, lines 970-975: the second field of the status document.
Status(t) ==
  /\ pc[t] = "status"
  /\ resp' = [resp EXCEPT ![t] =
                [text |-> "", state |-> resp[t].state,
                 conversation_length |-> Len(conversation_history)]]
  /\ Goto(t, "ret")
  /\ UNCHANGED <<state, rec_vars, vad_vars, hist_vars, mute_vars, config_vars,
                 cmd, max_score, render_end, connections_left>>

\* start_recording, line 290.
StartRecording(t) ==
  /\ pc[t] = "start_rec"
  /\ state' = LISTENING
  /\ Goto(t, "start_rec_buf")
  /\ UNCHANGED <<rec_vars, vad_vars, hist_vars, mute_vars, config_vars,
                 local_vars, render_end, connections_left>>

\* start_recording, lines 296-299.
StartRecordingBuffer(t) ==
  /\ pc[t] = "start_rec_buf"
  /\ audio_buffer' = <<>>
  /\ recording_start_time' = now
  /\ is_recording' = TRUE
  /\ recording_duration' = K1RecordingDuration
  /\ Return(t)
  /\ UNCHANGED <<state, vad_vars, hist_vars, mute_vars, config_vars, cmd,
                 max_score, render_end, connections_left>>

\* socket_handler, lines 992-997: the response is sent and the connection
\* closed; the thread ends.
Close(t) ==
  /\ pc[t] = "ret"
  /\ cmd' = [cmd EXCEPT ![t] = ""]
  /\ resp' = [resp EXCEPT ![t] = NoResponse]
  /\ Goto(t, "idle")
  /\ UNCHANGED <<state, rec_vars, vad_vars, hist_vars, mute_vars, config_vars,
                 max_score, render_end, connections_left>>

\* --------------------------------------------------------- the program
Next ==
  \/ Tick
  \/ WakeWordStart
  \/ \E speech \in SpeechInputs : ReadBlock(speech)
  \/ \E s \in {MaxScore(prediction) : prediction \in Predictions} : WakeCheck(s)
  \/ WakeDecide
  \/ WakeStartRecording
  \/ \E t \in Workers, c \in Commands : Accept(t, c)
  \/ \E t \in Workers : HandleCommand(t)
  \/ \E t \in Workers : ResetRest(t)
  \/ \E t \in Workers : Status(t)
  \/ \E t \in Workers : StartRecording(t)
  \/ \E t \in Workers : StartRecordingBuffer(t)
  \/ \E t \in Workers : Close(t)
  \/ \E t \in Threads, saved \in BOOLEAN : StopRecording(t, saved)
  \/ \E t \in Threads, r \in Recognitions : Recognize(t, r)
  \/ \E t \in Threads, r \in ToolResponses : LlmTools(t, r)
  \/ \E t \in Threads : ToolSpeak(t)
  \/ \E t \in Threads, failed \in BOOLEAN, length \in AnswerLengths :
       LlmChat(t, failed, length)
  \/ \E t \in Threads, completed \in BOOLEAN : Render(t, completed)
  \/ \E t \in Threads : Unmute(t)
  \/ \E t \in Threads : SpeakRest(t)
  \/ \E t \in Threads : CaptureCamera(t)
  \/ \E t \in Threads, captured \in BOOLEAN : CameraShot(t, captured)
  \/ \E t \in Threads, network \in Descriptions, local \in Descriptions :
       DescribeImage(t, network, local)

Spec == Init /\ [][Next]_vars

SpecConcurrent == InitConcurrent /\ [][Next]_vars

SpecTurns == InitTurns /\ [][Next]_vars

SpecDetector == InitDetector /\ [][Next]_vars

\* ------------------------------------------------------------- shutdown
\* "self.wake_word_thread.join(timeout=2)" returns: the thread has ended, or
\* two seconds have passed without it reaching its loop test with the flag
\* cleared, because the flag was set again or because the thread is in a
\* call that can last longer than the two seconds: loading the models and
\* opening the stream, the inference calls, the speech render (up to its
\* 30 s timeout).
JoinReturns ==
  \/ pc[Listener] = "stopped"
  \/ wake_word_running
  \/ pc[Listener] \in
       {"ww_start", "llm_tools", "llm_chat", "render", "vision"}

\* cleanup, lines 1028-1030, run by the signal handler of lines 1067-1068
\* on SIGTERM or SIGINT: the loop flag is cleared (the listener thread was
\* started) and the main thread waits for the listener.
CleanupSignal ==
  /\ main = "serving"
  /\ wake_word_running' = FALSE
  /\ main' = "join"
  /\ UNCHANGED <<state, rec_vars, vad_vars, hist_vars, mute_vars,
                 wake_word_enabled, camera_enabled, vad_enabled,
                 use_network_ollama, chat_history_timeout, max_blocks,
                 sample_vars, tool_vars, motor_vars, socket_path, pc, local_vars, render_end, connections_left>>

\* cleanup, lines 1031-1040: the join has returned, the server socket is
\* closed and its file removed.  After the handler's cleanup sys.exit(0)
\* unwinds through the finally clause of run (line 1074), which runs
\* cleanup once more: the flag is cleared again and the listener joined
\* again; after that one the process ends.
CleanupFinish ==
  /\ main \in {"join", "join_again"}
  /\ JoinReturns
  /\ socket_path' = FALSE
  /\ IF main = "join"
       THEN wake_word_running' = FALSE /\ main' = "join_again"
       ELSE main' = "exited" /\ UNCHANGED wake_word_running
  /\ UNCHANGED <<state, rec_vars, vad_vars, hist_vars, mute_vars,
                 wake_word_enabled, camera_enabled, vad_enabled,
                 use_network_ollama, chat_history_timeout, max_blocks,
                 sample_vars, tool_vars, motor_vars, pc, local_vars, render_end, connections_left>>

\* wake_word_loop, lines 851 and 942-946: the loop test finds the flag
\* cleared; the stream is stopped and closed and PyAudio terminated.
WakeWordStop ==
  /\ pc[Listener] = "read"
  /\ ~wake_word_running
  /\ Goto(Listener, "stopped")
  /\ UNCHANGED <<state, rec_vars, vad_vars, hist_vars, mute_vars,
                 config_vars, local_vars, render_end, connections_left>>

\* The threads (the listener is a daemon thread) run until the process ends.
NextShutdown ==
  \/ main # "exited" /\ Next
  \/ main # "exited" /\ WakeWordStop
  \/ CleanupSignal
  \/ CleanupFinish

\* The service with the wake word enabled, one connection and a shutdown
\* signal at any moment.
InitShutdown ==
  /\ \E camera \in BOOLEAN : Configured(TRUE, camera, FALSE, 1)
  /\ chat_history_timeout = ChatHistoryTimeout
  /\ max_blocks = MaxBuf
  /\ NoSamples
  /\ NoTools
  /\ MotorConstructed(0)
  /\ use_network_ollama = FALSE

SpecShutdown == InitShutdown /\ [][NextShutdown]_vars

\* --------------------------------------------------------------- vision
\* The service with the camera enabled and a network inference host
\* configured ("ollama_host" is not "local").
InitVision ==
  /\ \E wake \in BOOLEAN : Configured(wake, TRUE, FALSE, 1)
  /\ chat_history_timeout = ChatHistoryTimeout
  /\ max_blocks = MaxBuf
  /\ NoSamples
  /\ NoTools
  /\ MotorConstructed(0)
  /\ use_network_ollama = TRUE

SpecVision == InitVision /\ [][Next]_vars

\* ----------------------------------------------------------- resampling
\* "x[k-1::k]": every k-th sample, starting with the k-th.
EveryKthLate(x, k) ==
  [i \in 1..(Len(x) \div k) |-> x[i * k]]

\* "x[::k]": every k-th sample, starting with the first.
EveryKth(x, k) ==
  [i \in 1..((Len(x) + k - 1) \div k) |-> x[(i - 1) * k + 1]]

\* The anti-aliasing filter inside scipy.signal.decimate (an order 8
\* Chebyshev low-pass run forward and backward), represented by the mean of
\* a sample and its two neighbours: a filtered sample depends on the
\* samples around it.  astype(np.int16) drops the fraction.
LowPass(x) ==
  [i \in 1..Len(x) |->
     (x[IF i = 1 THEN 1 ELSE i - 1] + x[i]
        + x[IF i = Len(x) THEN i ELSE i + 1]) \div 3]

\* "decimate(audio_48k, 3)": filter, then every q-th sample.
Decimate(x, q) == EveryKth(LowPass(x), q)

robot_vars ==
  <<state, rec_vars, vad_vars, hist_vars, mute_vars, wake_word_enabled,
    camera_enabled, vad_enabled, use_network_ollama, chat_history_timeout,
    max_blocks, tool_vars, motor_vars, main, socket_path, wake_word_running,
    pc, local_vars, render_end, connections_left>>

\* wake_word_loop, line 909: the samples fed to the wake-word model.
SpottingFeed ==
  /\ feeds.spotting = <<>>
  /\ feeds' = [feeds EXCEPT !.spotting = <<EveryKth(native, DecimationFactor)>>]
  /\ UNCHANGED <<native, robot_vars>>

\* wake_word_loop, line 865: the samples cut into sub-frames for the
\* voice-activity detector.
VadFeed ==
  /\ feeds.vad = <<>>
  /\ feeds' = [feeds EXCEPT !.vad = <<EveryKth(native, DecimationFactor)>>]
  /\ UNCHANGED <<native, robot_vars>>

\* save_audio_buffer_to_wav, lines 357-368: the samples written to the file
\* the recognition engine reads.
SaveAudioBufferToWav ==
  /\ feeds.file = <<>>
  /\ feeds' = [feeds EXCEPT !.file = <<Decimate(native, 3)>>]
  /\ UNCHANGED <<native, robot_vars>>

NextResample == SpottingFeed \/ VadFeed \/ SaveAudioBufferToWav

SpecResample == InitResample /\ [][NextResample]_vars

\* ================================================================ claims
\* Positions inside the capture -> recognition -> answer -> speech pipeline.
PipelinePositions ==
  {"recognize", "llm_tools", "tool_speak", "llm_chat", "render", "unmute",
   "speak_rest", "cam_shot", "vision"}

\* Positions of a thread inside any function of an interaction, from the
\* trigger it has let through on.
InteractionPositions ==
  PipelinePositions
    \cup {"handler_rec", "start_rec", "start_rec_buf", "stop_rec", "camera"}

\* States of an interaction in progress.
BusyStates == {LISTENING, TRANSCRIBING, ANSWERING, CAMERA, SPEAKING}

\* The step in which the listener raises the wake-detected event.
WakeRaised == pc[Listener] = "ww_decide" /\ pc'[Listener] = "handler_rec"

\* The step in which thread t completes handle_command's dispatch.
Dispatched(t) == pc[t] = "handle" /\ pc'[t] # "handle"

\* C1: at most one thread is ever executing the capture -> recognition ->
\* answer -> speech pipeline, whatever the interleaving of the listener and
\* the connection threads.
C1_OnePipeline ==
  Cardinality({t \in Threads : pc[t] \in PipelinePositions}) <= 1

\* C2: while a recording is active (is_recording), no wake detection and no
\* START_RECORDING request starts another recording or empties the buffer
\* of the active one.
C2_OneRecordingSession ==
  [][is_recording =>
       /\ ~(pc[Listener] = "handler_rec" /\ pc'[Listener] # "handler_rec")
       /\ \A t \in Workers :
            ~(pc[t] = "start_rec_buf" /\ pc'[t] # "start_rec_buf")
       /\ (audio_buffer # <<>> => audio_buffer' # <<>>)]_vars

\* C3: every wake-detected event is raised while the state is WAKE_LISTENING
\* and the present time is not before tts_cooldown_until.
C3_WakeOnlyWhenListening ==
  [][WakeRaised => state = WAKE_LISTENING /\ ~(now < tts_cooldown_until)]_vars

\* C4: while any thread is inside a speech-render call (speak_answer's or a
\* tool's), no wake-detected event is raised.
C4_NoWakeDuringRender ==
  [][WakeRaised =>
       \A t \in Threads : pc[t] \notin {"render", "tool_speak"}]_vars

\* C5: when speak_answer returns the state to rest, tts_cooldown_until is a
\* time after the end of the render attempt, however the attempt ended.
C5_CooldownAfterEveryRender ==
  \A t \in Threads : pc[t] = "speak_rest" => tts_cooldown_until > render_end

\* C6: in no state has a render ended, is the listener able to act on
\* spotting output, and is tts_cooldown_until not set after that render.
C6_CooldownBeforeListenerActs ==
  ListenerMayAct => tts_cooldown_until > render_end

\* C7: when the listener decides on a score above the threshold, a time
\* strictly before tts_cooldown_until raises no wake-detected event and a
\* time strictly after it raises one.
C7_CooldownDecides ==
  [][(/\ pc[Listener] = "ww_decide"
      /\ pc'[Listener] # "ww_decide"
      /\ max_score > Threshold)
       => /\ now < tts_cooldown_until =>
               pc'[Listener] = "read" /\ state' = state
          /\ now > tts_cooldown_until =>
               pc'[Listener] = "handler_rec" /\ state' = WAKE_DETECTED]_vars

\* C7 witness: the event has just been raised for a score above the
\* threshold after a cooldown set by an answered turn has run out.
C7_Witness ==
  /\ pc[Listener] = "handler_rec"
  /\ state = WAKE_DETECTED
  /\ max_score > Threshold
  /\ tts_cooldown_until < now
  /\ conversation_history # <<>>

\* C8: once no thread is inside an interaction and no recording is active,
\* the state is not one of the states of an interaction in progress (from
\* which only a new RESET request would move it).
C8_ReturnsToRest ==
  (/\ \A t \in Threads : pc[t] \notin InteractionPositions
   /\ ~is_recording)
    => state \notin BusyStates

\* C9: handling STOP_RECORDING while the state is not LISTENING leaves the
\* state, the recording flag, the audio buffer and the conversation history
\* unchanged and returns OK.
C9_StopOutsideListening ==
  [][\A t \in Workers :
       (Dispatched(t) /\ cmd[t] = "STOP_RECORDING" /\ state # LISTENING)
         => /\ UNCHANGED <<state, is_recording, audio_buffer,
                           conversation_history>>
            /\ pc'[t] = "ret"
            /\ resp'[t] = Ok]_vars

\* C9 witness: a STOP_RECORDING request has been answered OK although no
\* recording has ever been started (recording_duration is still the value
\* of __init__), so it was handled outside LISTENING.
C9_Witness ==
  \E t \in Workers :
    /\ pc[t] = "ret"
    /\ cmd[t] = "STOP_RECORDING"
    /\ resp[t] = Ok
    /\ recording_duration = 5 * TicksPerSecond
    /\ state = WAKE_LISTENING

\* C10: a START_RECORDING or CAMERA_CAPTURE request handled in a state other
\* than IDLE and WAKE_LISTENING, and a request that is no known command,
\* returns OK and changes neither the state nor a buffer, flag or history.
C10_IgnoredRequests ==
  [][\A t \in Workers :
       (/\ Dispatched(t)
        /\ \/ /\ cmd[t] \in {"START_RECORDING", "CAMERA_CAPTURE"}
              /\ state \notin {IDLE, WAKE_LISTENING}
           \/ cmd[t] \notin KnownCommands)
         => /\ UNCHANGED <<state, rec_vars, vad_vars, hist_vars, mute_vars>>
            /\ pc'[t] = "ret"
            /\ resp'[t] = Ok]_vars

\* C10 witness: a START_RECORDING request has been answered OK after the
\* wake-detected event was raised and before any recording has started
\* (recording_duration is still the value of __init__): it was ignored in
\* WAKE_DETECTED.
C10_Witness ==
  \E t \in Workers :
    /\ pc[t] = "ret"
    /\ cmd[t] = "START_RECORDING"
    /\ resp[t] = Ok
    /\ recording_duration = 5 * TicksPerSecond
    /\ state = WAKE_DETECTED
    /\ pc[Listener] = "handler_rec"

\* C11: when a RESET request has been handled (its handler returns, from any
\* state), the state is WakeListening if the wake word is enabled and Idle
\* otherwise, and the conversation history is empty.
C11_ResetRestores ==
  [][\A t \in Workers :
       (pc[t] = "reset_rest" /\ pc'[t] = "ret")
         => /\ state' = (IF wake_word_enabled THEN WAKE_LISTENING ELSE IDLE)
            /\ conversation_history' = <<>>]_vars

\* C12: when recognition returns empty text or fails, the turn ends there (no
\* inference and no speech render is started) and the state goes from
\* Transcribing to WakeListening if the wake word is enabled and to Idle
\* otherwise.
C12_NoTextReturnsToRest ==
  [][\A t \in Threads :
       (pc[t] = "recognize" /\ pc'[t] \in {"ww_check", "ret"})
         => state' = (IF wake_word_enabled THEN WAKE_LISTENING ELSE IDLE)]_vars

\* C13: when the dispatcher produces no usable answer, or the inference call
\* fails or times out, the turn ends without a speech render and the state
\* goes from Answering to the resting state: WakeListening if the wake word is
\* enabled, Idle otherwise.
C13_NoAnswerReturnsToRest ==
  [][\A t \in Threads :
       (pc[t] \in {"llm_tools", "llm_chat"} /\ pc'[t] \in {"ww_check", "ret"})
         => state' = (IF wake_word_enabled THEN WAKE_LISTENING ELSE IDLE)]_vars

\* C14: in every reachable state, after any sequence of turns on any dispatch
\* path, the conversation history holds at most max_history_messages entries.
C14_HistoryBounded == Len(conversation_history) <= MaxHistoryMessages

\* Thread t records a user turn: transcribe_audio line 405 calls
\* answer_question, which runs up to the call of its dispatch path.
TurnStarted(t) ==
  pc[t] = "recognize" /\ pc'[t] \in {"llm_tools", "llm_chat", "camera"}

\* handle_command line 978 runs.
HistoryReset ==
  \E t \in Workers :
    pc[t] = "handle" /\ cmd[t] = "RESET" /\ pc'[t] = "reset_rest"

\* s is the most recent part of h, in the order of h.
MostRecent(s, h) ==
  Len(s) <= Len(h) /\ s = SubSeq(h, Len(h) - Len(s) + 1, Len(h))

\* C15: over turns without timeout or RESET the retained history is the most
\* recent part of the sequence of appended entries, in the original order.
\* Step by step: a user turn leaves the new user entry last, preceded by the
\* most recent entries the history held before; every other change of the
\* history appends the answer and drops nothing.
C15_KeepsMostRecent ==
  [][/\ \A t \in Threads :
          (TurnStarted(t) /\ ~HistoryTimedOut)
            => /\ conversation_history' # <<>>
               /\ conversation_history'[Len(conversation_history')] = "user"
               /\ MostRecent(SubSeq(conversation_history', 1,
                                    Len(conversation_history') - 1),
                             conversation_history)
     /\ (/\ conversation_history' # conversation_history
         /\ ~HistoryReset
         /\ \A t \in Threads : ~TurnStarted(t))
          => conversation_history' =
               Append(conversation_history, "assistant")]_vars

\* A later turn of a conversation has dropped the oldest entry.
C15_Witness ==
  /\ conversation_history = <<"assistant", "user">>
  /\ \E t \in Threads : pc[t] \in {"llm_tools", "llm_chat", "camera"}

\* C16: when a user turn is recorded and the time since the previous turn
\* exceeds chat_history_timeout, the history is emptied before the turn is
\* appended (the turn is then its only entry); when the time does not exceed
\* the timeout, earlier entries are kept in front of the new one.
C16_TimeoutEmptiesHistory ==
  [][\A t \in Threads :
       TurnStarted(t)
         => IF now - last_interaction_time > chat_history_timeout
              THEN conversation_history' = <<"user">>
              ELSE LET kept == SubSeq(conversation_history', 1,
                                      Len(conversation_history') - 1)
                   IN /\ conversation_history' # <<>>
                      /\ conversation_history'[Len(conversation_history')]
                           = "user"
                      /\ MostRecent(kept, conversation_history)
                      /\ conversation_history # <<>> => kept # <<>>]_vars

\* A recording was recognised later than chat_history_timeout after the
\* previous turn, whose entries the history still holds.
C16_Witness ==
  /\ \E t \in Threads : pc[t] = "recognize"
  /\ conversation_history # <<>>
  /\ now - last_interaction_time > chat_history_timeout

\* C17: on every dispatch path that reaches a speech render, the user turn and
\* the answer text have been appended to the conversation history before the
\* render starts: when a thread enters the render, the history ends with a
\* user entry followed by the answer.
C17_HistoryBeforeRender ==
  [][\A t \in Threads :
       (pc[t] # "render" /\ pc'[t] = "render")
         => /\ Len(conversation_history') >= 2
            /\ conversation_history'[Len(conversation_history')] = "assistant"
            /\ conversation_history'[Len(conversation_history') - 1]
                 = "user"]_vars

\* The listener processes one audio block of an active recording
\* (wake_word_loop lines 854-904).
BlockProcessed ==
  pc[Listener] = "read" /\ pc'[Listener] # "read" /\ is_recording

\* C18: under either stop policy, the first audio block processed once the
\* time since the recording start is at least the maximum duration stops the
\* recording: the listener calls stop_recording for that block, and the
\* recording is no longer active when that call has run.
C18_StopsAtMaxDuration ==
  [][/\ (BlockProcessed /\ now - recording_start_time >= recording_duration)
          => pc'[Listener] = "stop_rec"
     /\ (pc[Listener] = "stop_rec" /\ pc'[Listener] # "stop_rec")
          => ~is_recording']_vars

\* A recording under the voice-activity policy in which no end of speech was
\* found is being stopped at its maximum duration.
C18_Witness ==
  /\ pc[Listener] = "stop_rec"
  /\ is_recording /\ vad
  /\ ~EndOfSpeech(speech_started, last_speech_time)
  /\ now - recording_start_time >= recording_duration

\* C19: under the voice-activity policy a recording is stopped for silence
\* only after speech has been observed in that recording (the last speech
\* observation is not older than the recording), and then exactly when the
\* time since the last speech observation reaches silence_threshold; before
\* any speech is observed only the maximum duration stops it.
C19_SilenceOnlyAfterSpeech ==
  [][(BlockProcessed /\ vad)
       => LET heard == /\ speech_started'
                       /\ last_speech_time' >= recording_start_time
              silent == now - last_speech_time' >= SilenceThreshold
              ceiling == now - recording_start_time >= recording_duration
          IN /\ (pc'[Listener] = "stop_rec" /\ ~ceiling) => (heard /\ silent)
             /\ (heard /\ silent) => pc'[Listener] = "stop_rec"]_vars

\* C20: a recording under the voice-activity policy stops at the time of the
\* last speech observation of that recording plus silence_threshold, clipped
\* to the recording's maximum duration (the maximum duration alone when no
\* speech was observed): a processed block stops the recording exactly when
\* the elapsed time has reached that point.
C20_StopTime ==
  [][(BlockProcessed /\ vad)
       => LET elapsed == now - recording_start_time
              heard == /\ speech_started'
                       /\ last_speech_time' >= recording_start_time
              after_speech ==
                last_speech_time' - recording_start_time + SilenceThreshold
              due == IF heard /\ after_speech < recording_duration
                       THEN after_speech
                       ELSE recording_duration
          IN (pc'[Listener] = "stop_rec") <=> (elapsed >= due)]_vars

\* C21: for every block of a recording under the voice-activity policy, if
\* the detector classifies any one of the block's 20 ms sub-frames as speech
\* (the last one included), last_speech_time is updated and the speaking flag
\* is set.
C21_AnySubFrameCounts ==
  [][\A speech \in SUBSET SubFrames :
       (BlockProcessed /\ vad /\ speech # {} /\ ReadBlock(speech))
         => (last_speech_time' = now /\ speech_started')]_vars

\* Thread t ends an active recording (stop_recording past line 309).
RecordingStopped(t) ==
  pc[t] = "stop_rec" /\ pc'[t] # "stop_rec" /\ is_recording

C23_EveryKthSample ==
  \A feed \in {feeds.spotting, feeds.vad} :
    feed # <<>>
      => LET out == feed[1]
         IN /\ Len(out) = Len(native) \div DecimationFactor
            /\ \A i \in 0..(Len(out) - 1) :
                 out[i + 1] = native[i * DecimationFactor + 1]

\* Both feeds were computed from a block of two frames whose first sample
\* differs from the samples next to the second kept one.
C23_Witness ==
  /\ feeds.spotting # <<>> /\ feeds.vad # <<>>
  /\ Len(native) = 2 * DecimationFactor
  /\ native[DecimationFactor] # native[DecimationFactor + 1]
  /\ native[DecimationFactor + 1] # native[1]

\* C24: the same every-k-th-sample operator is applied to the spotting-model
\* feed, the voice-activity feed and the audio written to the recognition
\* file: whatever was computed from the same input samples is identical.
C24_SameResampling ==
  \A a \in {feeds.spotting, feeds.vad, feeds.file} :
    \A b \in {feeds.spotting, feeds.vad, feeds.file} :
      (a # <<>> /\ b # <<>>) => a = b

\* C25: the audio flushed for a recording is the concatenation, in arrival
\* order, of every block read while the session was active.  Step by step:
\* while a session is active its buffer changes only by a block appended at
\* its end, under any interleaving with router commands.
C25_BufferOnlyGrows ==
  [][is_recording
       => \/ audio_buffer' = audio_buffer
          \/ /\ Len(audio_buffer') = Len(audio_buffer) + 1
             /\ SubSeq(audio_buffer', 1, Len(audio_buffer)) = audio_buffer]_vars

\* The listener decides on the prediction of a block (lines 916-934).
WakeDecided == pc[Listener] = "ww_decide" /\ pc'[Listener] # "ww_decide"

\* C26: for spotting confidences observed in WAKE_LISTENING outside the
\* cooldown, the wake-detected event fires at the first block whose maximum
\* confidence across the phrases strictly exceeds the threshold: a block is
\* evaluated only in WAKE_LISTENING, the value compared is the maximum of the
\* reported confidences, a block at or below the threshold fires nothing, a
\* block above it fires the event, and the event leaves WAKE_LISTENING, so
\* that no further event fires until the state has returned there.
C26_FirstAboveThreshold ==
  [][/\ \A prediction \in Predictions :
          (/\ pc[Listener] = "ww_check" /\ pc'[Listener] = "ww_decide"
           /\ WakeCheck(MaxScore(prediction)))
            => /\ state = WAKE_LISTENING
               /\ \A p \in DOMAIN prediction : max_score' >= prediction[p]
               /\ \E p \in DOMAIN prediction : max_score' = prediction[p]
     /\ (WakeDecided /\ ~(now < tts_cooldown_until))
          => /\ WakeRaised <=> max_score > Threshold
             /\ WakeRaised => state' = WAKE_DETECTED
             /\ ~WakeRaised => state' = state]_vars

\* A wake-detected event has fired after an earlier wake-word recording had
\* ended and the state had returned to WAKE_LISTENING.
C26_Witness ==
  /\ pc[Listener] = "handler_rec"
  /\ state = WAKE_DETECTED
  /\ max_score = Threshold + 1
  /\ recording_duration = MaxRecordingTime
  /\ ~is_recording

\* The positions of the listener inside its own loop (lines 851-940) and in
\* the wake-detected handler: reading a block, buffering and endpointing,
\* scoring the block, raising the event, ending the recording.
ListenerLoop == {"ww_start", "read", "ww_check", "ww_decide", "handler_rec", "stop_rec"}

\* C27: after raising a wake-detected event the listener does not block on
\* the downstream processing of that interaction: while recognition,
\* inference and speech render of an interaction begun by a wake event (its
\* recording has the wake-word duration) run, the listener is in its own
\* loop reading blocks, never inside one of those steps.
C27_ListenerKeepsReading ==
  (wake_word_enabled /\ recording_duration = MaxRecordingTime)
    => pc[Listener] \in ListenerLoop

\* The connection thread t evaluates the second field of the status document.
StatusLengthRead(t) == pc[t] = "status" /\ pc'[t] = "ret"

\* C28: a STATUS response reports a state value and a history length that
\* both held at one single instant, under any interleaving: when the length is
\* read either the state reported still holds, or the history still has the
\* length it had when the state was read (length_then, kept for this
\* comparison only); and handling STATUS changes no state.
C28_StatusSnapshot ==
  [][\A t \in Workers :
       /\ StatusLengthRead(t)
            => /\ \/ resp[t].state = state
                  \/ resp[t].length_then = Len(conversation_history)
               /\ resp'[t].state = resp[t].state
               /\ resp'[t].conversation_length = Len(conversation_history)
       /\ (cmd[t] = "STATUS" /\ pc[t] \in {"handle", "status"} /\ pc'[t] # pc[t])
            => UNCHANGED <<state, rec_vars, vad_vars, hist_vars, mute_vars>>]_vars

\* The connection thread t has handled a payload that is no known command.
MalformedHandled(t) ==
  pc[t] = "handle" /\ cmd[t] \notin KnownCommands /\ pc'[t] # "handle"

\* C29: a malformed request payload is answered with an explicit error
\* status, not with the answer of an accepted command, and it leaves the
\* interaction state unchanged and the router accepting connections.
C29_MalformedRejected ==
  [][\A t \in Workers :
       MalformedHandled(t)
         => /\ resp'[t] # Ok
            /\ resp'[t] # NoResponse
            /\ state' = state
            /\ connections_left' = connections_left]_vars

\* The thread t issues a speech render call: the one of speak_answer or the
\* one the shutdown tool makes itself.
RenderIssued(t) ==
  pc'[t] \in {"render", "tool_speak"} /\ pc'[t] # pc[t]

\* C30: on every path, tool execution included, each speech render call is
\* issued by the speech step: when the call starts the state is SPEAKING and
\* the listener is muted.
C30_RenderOnlyWhenSpeaking ==
  [][\A t \in Threads :
       RenderIssued(t) => (state' = SPEAKING /\ wake_word_paused')]_vars

\* C31: after shutdown is signalled the listener loop exits and releases the
\* audio device, and the socket file is removed, at whatever moment of the
\* listener's lifetime the signal arrives (its start-up included): when the
\* process ends, the listener is not left inside its loop with the stream
\* open (it has not opened it, or has closed it).
C31_ShutdownStopsListener ==
  main = "exited"
    => (pc[Listener] \in {"off", "ww_start", "stopped"} /\ ~socket_path)

\* C32: on the vision path with a network backend configured, when the
\* network call fails the local backend is called once after it; a
\* description from the local call is spoken (SPEAKING is entered, nothing
\* is reported to the client), and only when the local call gives no
\* description does the turn end without speech.
C32_VisionFallsBack ==
  [][\A t \in Threads, local \in Descriptions :
       (pc[t] = "vision" /\ DescribeImage(t, "error", local))
         => /\ VisionCalls("error") = <<"network", "local">>
            /\ local = "description"
                 => (state' = SPEAKING /\ pc'[t] = "render" /\ resp' = resp)
            /\ local # "description"
                 => (state' = IDLE /\ pc'[t] # "render")]_vars

\* A description is being spoken on the vision path of a service with a
\* network backend.
C32_Witness ==
  \E t \in Workers :
    /\ use_network_ollama
    /\ cmd[t] = "CAMERA_CAPTURE"
    /\ pc[t] = "render"
    /\ state = SPEAKING
    /\ wake_word_paused

\* C33: a transcript classified as a time query is answered through the
\* local date/time path; the inference service is not called for that turn
\* (the thread does not go to wait for an answer of the service).
C33_TimeAnsweredLocally ==
  [][\A t \in Threads, r \in Transcripts :
       (/\ pc[t] = "recognize"
        /\ DetectCommandCategory(r) = "TIME_COMMAND"
        /\ Recognize(t, r))
         => pc'[t] \notin {"llm_tools", "llm_chat", "vision"}]_vars

\* ==== command dispatch on words and arguments ====

MaxWords == 3     \* longest transcript, in words
MaxOver == 1      \* how far outside 0..100 a requested percent may lie
MaxPercent == 100 \* set_volume: max(0, min(100, int(percent)))

\* A transcript is in one language: words of one of the two vocabularies.
Questions ==
  UNION {[1..n -> EnglishWords] \cup [1..n -> ArabicWords] :
           n \in 1..MaxWords}

\* The tool calls a stage-2 answer may carry, lines 497-499: a function
\* name and its arguments; the percent may lie outside 0..100.
ToolCalls ==
  {[name |-> "set_volume", arguments |-> <<p>>] :
     p \in (0 - MaxOver)..(MaxPercent + MaxOver)}
    \cup {[name |-> "get_current_time", arguments |-> <<>>]}

\* What subprocess.run(['amixer', ...]) does, lines 116-126: returns with
\* code 0, returns with another code, or raises (no amixer, timeout).
MixerOutcomes == {"zero", "nonzero", "raised"}

ClampBelow(percent) ==
  IF percent < 0 THEN 0
  ELSE IF percent >= MaxPercent THEN MaxPercent - 1 ELSE percent

\* set_volume, line 113: max(0, min(100, int(percent))).
Clamp(percent) ==
  IF percent < 0 THEN 0
  ELSE IF percent > MaxPercent THEN MaxPercent ELSE percent

\* set_volume, lines 109-128: the text returned.  "volume_set" is
\* "Volume set to {percent}%"; "volume_error" is "Failed to set volume:
\* {error}" and carries the mixer's error text, not the percent.
SetVolume(percent, mixer) ==
  IF mixer = "zero"
    THEN [template |-> "volume_set", percent |-> Clamp(percent)]
    ELSE [template |-> "volume_error", error |-> mixer]

\* execute_tool, lines 252-280: the function is looked up by name and
\* called with the arguments it accepts; get_current_time, lines 140-147,
\* returns the text with the time.
ExecuteTool(call, mixer) ==
  IF call.name = "set_volume" THEN SetVolume(call.arguments[1], mixer)
  ELSE IF call.name = "get_current_time" THEN [template |-> "time"]
  ELSE [template |-> "unknown_function"]

\* answer_question, lines 453-457: stage 1 classifies the transcript.
Stage1 ==
  /\ command_category = ""
  /\ command_category' = CommandCategory(question)
  /\ UNCHANGED <<question, tool_call, executed, spoken>>

\* answer_question, lines 466-499: a volume command goes to the inference
\* service together with the tool definitions, and the answer carries one
\* tool call.
Stage2(call) ==
  /\ command_category = "VOLUME_COMMAND"
  /\ tool_call = NoCall
  /\ tool_call' = call
  /\ UNCHANGED <<question, command_category, executed, spoken>>

\* answer_question, lines 497-520: the call is executed and the joined
\* results (one result here) are given to speak_answer.
RunTools(mixer) ==
  /\ tool_call # NoCall
  /\ executed = <<>>
  /\ executed' = Append(executed, tool_call)
  /\ spoken' = ExecuteTool(tool_call, mixer)
  /\ UNCHANGED <<question, command_category, tool_call>>

tool_frame ==
  <<motor_vars, state, rec_vars, vad_vars, hist_vars, mute_vars, wake_word_enabled,
    camera_enabled, vad_enabled, use_network_ollama, chat_history_timeout,
    max_blocks, sample_vars, main, socket_path, wake_word_running, pc,
    local_vars, render_end, connections_left>>

NextTools ==
  \/ Stage1 /\ UNCHANGED tool_frame
  \/ (\E call \in ToolCalls : Stage2(call)) /\ UNCHANGED tool_frame
  \/ (\E mixer \in MixerOutcomes : RunTools(mixer)) /\ UNCHANGED tool_frame

InitTools ==
  /\ Configured(FALSE, FALSE, FALSE, 0)
  /\ chat_history_timeout = ChatHistoryTimeout
  /\ max_blocks = MaxBuf
  /\ NoSamples
  /\ use_network_ollama = FALSE
  /\ question \in Questions
  /\ command_category = ""
  /\ tool_call = NoCall
  /\ executed = <<>>
  /\ spoken = [template |-> ""]
  /\ MotorConstructed(0)

SpecTools == InitTools /\ [][NextTools]_vars

\* Stage 1 alone, applied to every transcript.
NextStage1 == Stage1 /\ UNCHANGED tool_frame

SpecStage1 == InitTools /\ [][NextStage1]_vars

\* C34, as the code has it: when stage 1 found a volume command and the
\* stage-2 answer carries set_volume(p) with p in 0..100, the dispatcher
\* executes exactly that call once, and, when the mixer accepts the
\* setting (amixer returns 0), the text spoken is the confirmation with p.
C34_VolumeConfirmed ==
  [][\A mixer \in MixerOutcomes :
       (/\ RunTools(mixer)
        /\ command_category = "VOLUME_COMMAND"
        /\ tool_call.name = "set_volume"
        /\ tool_call.arguments[1] \in 0..MaxPercent)
       => /\ executed' = <<tool_call>>
          /\ mixer = "zero" =>
               spoken' = [template |-> "volume_set",
                          percent |-> tool_call.arguments[1]]]_vars

\* C34 as stated: the call set_volume(p) with p in 0..100 is always
\* followed by the spoken confirmation with p.
C34_VolumeSpoken ==
  [][\A mixer \in MixerOutcomes :
       (/\ RunTools(mixer)
        /\ command_category = "VOLUME_COMMAND"
        /\ tool_call.name = "set_volume"
        /\ tool_call.arguments[1] \in 0..MaxPercent)
       => /\ executed' = <<tool_call>>
          /\ spoken'.template = "volume_set"
          /\ spoken'.percent = tool_call.arguments[1]]_vars

C34_Witness ==
  /\ command_category = "VOLUME_COMMAND"
  /\ executed = <<[name |-> "set_volume", arguments |-> <<MaxPercent>>]>>
  /\ spoken = [template |-> "volume_set", percent |-> MaxPercent]

\* C35: stage 1 gives every transcript exactly one of the five categories
\* or none; the category is the first one, in the order volume, time, date,
\* camera, shutdown, whose pattern matches the transcript, and it is none
\* exactly when no pattern matches, for English and for Arabic transcripts.
C35_FirstMatchWins ==
  command_category # "" =>
    LET w == question
    IN /\ command_category \in
            {"VOLUME_COMMAND", "TIME_COMMAND", "DATE_COMMAND",
             "CAMERA_COMMAND", "SHUTDOWN_COMMAND", "NONE"}
       /\ VolumePattern(w) => command_category = "VOLUME_COMMAND"
       /\ (TimePattern(w) /\ ~VolumePattern(w))
            => command_category = "TIME_COMMAND"
       /\ (DatePattern(w) /\ ~VolumePattern(w) /\ ~TimePattern(w))
            => command_category = "DATE_COMMAND"
       /\ (CameraPattern(w) /\ ~VolumePattern(w) /\ ~TimePattern(w)
             /\ ~DatePattern(w))
            => command_category = "CAMERA_COMMAND"
       /\ (ShutdownPattern(w) /\ ~VolumePattern(w) /\ ~TimePattern(w)
             /\ ~DatePattern(w) /\ ~CameraPattern(w))
            => command_category = "SHUTDOWN_COMMAND"
       /\ command_category = "NONE" <=>
            ~(VolumePattern(w) \/ TimePattern(w) \/ DatePattern(w)
                \/ CameraPattern(w) \/ ShutdownPattern(w))

C35_Witness ==
  /\ command_category = "TIME_COMMAND"
  /\ DatePattern(question)
  /\ \E i \in DOMAIN question : question[i] \in EnglishWords

\* C36: in every reachable state, a running recording (is_recording) means
\* the state is WakeDetected or Listening; no command, RESET during
\* Listening included, leaves a recording running in another state.
C36_RecordingOnlyWhileListening ==
  is_recording => state \in {WAKE_DETECTED, LISTENING}

\* C37: every recording session, started by the wake word or by
\* START_RECORDING, begins with its own voice-activity sub-state: when a
\* session starts under a detector, no speech has been seen for it yet, so
\* that silence cannot stop it before speech is observed in it.
C37_FreshVadPerSession ==
  [][(~is_recording /\ is_recording') => (vad' => ~speech_started')]_vars

\* C38: with wake-word detection disabled a button-driven capture works:
\* the blocks arriving between START_RECORDING and STOP_RECORDING are
\* appended to the session, so a STOP_RECORDING that ends a recording which
\* has run for a tick or more (several blocks, enough audio) and whose file
\* is written moves the state to Transcribing.
C38_ButtonCaptureWorks ==
  [][\A t \in Workers :
       (/\ ~wake_word_enabled
        /\ cmd[t] = "STOP_RECORDING"
        /\ is_recording
        /\ now - recording_start_time >= 1
        /\ StopRecording(t, TRUE))
       => (audio_buffer # <<>> /\ state' = TRANSCRIBING)]_vars

\* ==== motor service (motor_controller.py) ====

ObstacleDistanceCm == 20   \* OBSTACLE_DISTANCE_CM
MaxSensorDistance == 400   \* MAX_SENSOR_DISTANCE
MinSensorDistance == 2     \* "if distance < 2: return 2"

\* _read_sensor, lines 213-259: a distance between 2 and 400 cm; here the
\* nearest one, the two around the obstacle limit and the farthest one.
Distances ==
  {MinSensorDistance, ObstacleDistanceCm - 1, ObstacleDistanceCm,
   MaxSensorDistance}

MovementActions ==
  {"move_forward", "move_backward", "turn_left", "turn_right",
   "explore_start"}
StopActions == {"stop", "explore_stop"}
MotorActions ==
  MovementActions \cup StopActions \cup {"set_stop_only", "set_backup"}

\* Nothing but the motor service moves.
motor_frame ==
  <<tool_vars, state, rec_vars, vad_vars, hist_vars, mute_vars,
    wake_word_enabled, camera_enabled, vad_enabled, use_network_ollama,
    chat_history_timeout, max_blocks, sample_vars, main, socket_path,
    wake_word_running, pc, local_vars, render_end, connections_left>>

handler_vars == <<handler_pc, action, last_command, motor_connections_left>>
monitor_vars == <<monitor_pc, behavior>>
obstacle_vars == <<obstacle_detected, obstacle_left, obstacle_right>>

MotorGoto(t, label) == handler_pc' = [handler_pc EXCEPT ![t] = label]

\* obstacle_monitoring_loop, lines 289-329, one iteration: read the two
\* sensors, set the flags and, for an obstacle not seen in the previous
\* iteration, start the avoidance (perform_obstacle_avoidance, lines
\* 342-348: flags and _stop_motors) or call stop.
MonitorIteration(left, right) ==
  /\ monitor_pc = "read"
  /\ LET left_obstacle == left < ObstacleDistanceCm
         right_obstacle == right < ObstacleDistanceCm
         any_obstacle == left_obstacle \/ right_obstacle
     IN /\ obstacle_left' = left_obstacle
        /\ obstacle_right' = right_obstacle
        /\ obstacle_detected' = any_obstacle
        /\ IF any_obstacle /\ ~obstacle_detected
             THEN IF is_moving_forward /\ ~avoidance_in_progress
                    THEN /\ avoidance_in_progress' = TRUE
                         /\ is_moving_forward' = FALSE
                         /\ motors' = "stop"
                         /\ behavior' = obstacle_behavior
                         /\ monitor_pc' =
                              IF obstacle_behavior = "stop_only"
                                THEN "finally" ELSE "backup_pause"
                         /\ UNCHANGED explore_mode
                    ELSE /\ explore_mode' = FALSE
                         /\ is_moving_forward' = FALSE
                         /\ motors' = "stop"
                         /\ UNCHANGED <<avoidance_in_progress, monitor_vars>>
             ELSE UNCHANGED <<motors, is_moving_forward, explore_mode,
                              avoidance_in_progress, monitor_vars>>
  /\ UNCHANGED <<obstacle_behavior, last_turn_was_left, handler_vars>>

\* perform_obstacle_avoidance, lines 357-358 and 363-364, and
\* _raw_move_backward, lines 407-411: after the pause the motors run
\* backward.
BackupStart ==
  /\ monitor_pc = "backup_pause"
  /\ motors' = "backward"
  /\ monitor_pc' = "backing"
  /\ UNCHANGED <<is_moving_forward, explore_mode, avoidance_in_progress,
                 obstacle_vars, obstacle_behavior, last_turn_was_left,
                 behavior, handler_vars>>

\* The turn perform_obstacle_avoidance chooses, lines 367-386.
AvoidTurn ==
  IF obstacle_left /\ obstacle_right
    THEN IF last_turn_was_left THEN "right" ELSE "left"
    ELSE IF obstacle_left THEN "right" ELSE "left"

\* _raw_move_backward, line 412, and perform_obstacle_avoidance, lines
\* 367-386: the backing ends with _stop_motors; for backup_and_turn the
\* turn away from the obstacle starts.
BackupEnd ==
  /\ monitor_pc = "backing"
  /\ IF behavior = "backup_and_turn"
       THEN /\ motors' = AvoidTurn
            /\ monitor_pc' = "turning"
       ELSE /\ motors' = "stop"
            /\ monitor_pc' = "finally"
  /\ UNCHANGED <<is_moving_forward, explore_mode, avoidance_in_progress,
                 obstacle_vars, obstacle_behavior, last_turn_was_left,
                 behavior, handler_vars>>

\* _raw_turn_left and _raw_turn_right, lines 433-434 and 445-446, and
\* perform_obstacle_avoidance, lines 372-386: the turn ends with
\* _stop_motors and its direction is remembered.
TurnEnd ==
  /\ monitor_pc = "turning"
  /\ motors' = "stop"
  /\ last_turn_was_left' = (AvoidTurn = "left")
  /\ monitor_pc' = "finally"
  /\ UNCHANGED <<is_moving_forward, explore_mode, avoidance_in_progress,
                 obstacle_vars, obstacle_behavior, behavior, handler_vars>>

\* perform_obstacle_avoidance, lines 394-400: the finally block, up to the
\* pause before the resumed drive.
AvoidanceFinally ==
  /\ monitor_pc = "finally"
  /\ avoidance_in_progress' = FALSE
  /\ monitor_pc' = IF explore_mode THEN "resume_pause" ELSE "read"
  /\ UNCHANGED <<motors, is_moving_forward, explore_mode, obstacle_vars,
                 obstacle_behavior, last_turn_was_left, behavior,
                 handler_vars>>

\* perform_obstacle_avoidance, line 402, and _raw_move_forward_continuous,
\* lines 415-422: after the pause the forward drive is resumed.
ExploreResume ==
  /\ monitor_pc = "resume_pause"
  /\ is_moving_forward' = TRUE
  /\ motors' = "forward"
  /\ monitor_pc' = "read"
  /\ UNCHANGED <<explore_mode, avoidance_in_progress, obstacle_vars,
                 obstacle_behavior, last_turn_was_left, behavior,
                 handler_vars>>

\* socket_server_loop, lines 795-805, and socket_handler, line 770: a
\* connection is accepted, a thread is started for it and reads a command.
MotorAccept(t, a) ==
  /\ handler_pc[t] = "idle"
  /\ motor_connections_left > 0
  /\ motor_connections_left' = motor_connections_left - 1
  /\ action' = [action EXCEPT ![t] = a]
  /\ MotorGoto(t, "handle")
  /\ UNCHANGED <<motors, is_moving_forward, explore_mode,
                 avoidance_in_progress, obstacle_vars, obstacle_behavior,
                 last_turn_was_left, monitor_vars, last_command>>

\* handle_command, lines 644-738 (the commands that read only are left
\* out), with stop, lines 509-514, move_backward, lines 551-558, and the
\* start of turn_left and turn_right, lines 580-586 and 607-613.
MotorHandle(t) ==
  /\ handler_pc[t] = "handle"
  /\ CASE action[t] = "move_forward" ->
            /\ MotorGoto(t, "forward_check")
            /\ UNCHANGED <<motors, is_moving_forward, explore_mode,
                           obstacle_behavior>>
       [] action[t] = "move_backward" ->
            /\ motors' = "backward"
            /\ MotorGoto(t, "reply_ok")
            /\ UNCHANGED <<is_moving_forward, explore_mode,
                           obstacle_behavior>>
       [] action[t] = "turn_left" ->
            /\ motors' = "left"
            /\ MotorGoto(t, "turning")
            /\ UNCHANGED <<is_moving_forward, explore_mode,
                           obstacle_behavior>>
       [] action[t] = "turn_right" ->
            /\ motors' = "right"
            /\ MotorGoto(t, "turning")
            /\ UNCHANGED <<is_moving_forward, explore_mode,
                           obstacle_behavior>>
       [] action[t] \in StopActions ->
            /\ explore_mode' = FALSE
            /\ is_moving_forward' = FALSE
            /\ motors' = "stop"
            /\ MotorGoto(t, "reply_ok")
            /\ UNCHANGED obstacle_behavior
       [] action[t] = "set_stop_only" ->
            /\ obstacle_behavior' = "stop_only"
            /\ MotorGoto(t, "reply_ok")
            /\ UNCHANGED <<motors, is_moving_forward, explore_mode>>
       [] action[t] = "set_backup" ->
            /\ obstacle_behavior' = "backup"
            /\ MotorGoto(t, "reply_ok")
            /\ UNCHANGED <<motors, is_moving_forward, explore_mode>>
       [] action[t] = "explore_start" ->
            IF obstacle_detected
              THEN /\ MotorGoto(t, "reply_blocked")
                   /\ UNCHANGED <<motors, is_moving_forward, explore_mode,
                                  obstacle_behavior>>
              ELSE /\ obstacle_behavior' = "backup_and_turn"
                   /\ explore_mode' = TRUE
                   /\ MotorGoto(t, "forward_check")
                   /\ UNCHANGED <<motors, is_moving_forward>>
  /\ last_command' = action[t]
  /\ UNCHANGED <<avoidance_in_progress, obstacle_vars, last_turn_was_left,
                 monitor_vars, action, motor_connections_left>>

\* move_forward, lines 523-525: the drive is refused while an obstacle is
\* flagged.  explore_start answers ok whatever move_forward returns.
MoveForwardCheck(t) ==
  /\ handler_pc[t] = "forward_check"
  /\ MotorGoto(t, IF ~obstacle_detected THEN "forward_go"
                  ELSE IF action[t] = "explore_start" THEN "reply_ok"
                  ELSE "reply_blocked")
  /\ UNCHANGED <<motors, is_moving_forward, explore_mode,
                 avoidance_in_progress, obstacle_vars, obstacle_behavior,
                 last_turn_was_left, monitor_vars, action, last_command,
                 motor_connections_left>>

\* move_forward, lines 527-543, with duration 0: the flag is set and the
\* motors run forward.
MoveForwardGo(t) ==
  /\ handler_pc[t] = "forward_go"
  /\ is_moving_forward' = TRUE
  /\ motors' = "forward"
  /\ last_command' = action[t]
  /\ MotorGoto(t, "reply_ok")
  /\ UNCHANGED <<explore_mode, avoidance_in_progress, obstacle_vars,
                 obstacle_behavior, last_turn_was_left, monitor_vars, action,
                 motor_connections_left>>

\* turn_left and turn_right, lines 588-589 and 615-616: after the sleep of
\* the turn, stop.
TurnStop(t) ==
  /\ handler_pc[t] = "turning"
  /\ explore_mode' = FALSE
  /\ is_moving_forward' = FALSE
  /\ motors' = "stop"
  /\ last_command' = action[t]
  /\ MotorGoto(t, "reply_ok")
  /\ UNCHANGED <<avoidance_in_progress, obstacle_vars, obstacle_behavior,
                 last_turn_was_left, monitor_vars, action,
                 motor_connections_left>>

\* socket_handler, lines 771-777: the response is sent and the connection
\* closed; the thread ends.
MotorReply(t) ==
  /\ handler_pc[t] \in {"reply_ok", "reply_blocked"}
  /\ action' = [action EXCEPT ![t] = ""]
  /\ MotorGoto(t, "idle")
  /\ UNCHANGED <<motors, is_moving_forward, explore_mode,
                 avoidance_in_progress, obstacle_vars, obstacle_behavior,
                 last_turn_was_left, monitor_vars, last_command,
                 motor_connections_left>>

NextMotor ==
  \/ (\E left \in Distances, right \in Distances :
        MonitorIteration(left, right)) /\ UNCHANGED motor_frame
  \/ BackupStart /\ UNCHANGED motor_frame
  \/ BackupEnd /\ UNCHANGED motor_frame
  \/ TurnEnd /\ UNCHANGED motor_frame
  \/ AvoidanceFinally /\ UNCHANGED motor_frame
  \/ ExploreResume /\ UNCHANGED motor_frame
  \/ (\E t \in MotorWorkers, a \in MotorActions : MotorAccept(t, a))
       /\ UNCHANGED motor_frame
  \/ (\E t \in MotorWorkers : MotorHandle(t)) /\ UNCHANGED motor_frame
  \/ (\E t \in MotorWorkers : MoveForwardCheck(t)) /\ UNCHANGED motor_frame
  \/ (\E t \in MotorWorkers : MoveForwardGo(t)) /\ UNCHANGED motor_frame
  \/ (\E t \in MotorWorkers : TurnStop(t)) /\ UNCHANGED motor_frame
  \/ (\E t \in MotorWorkers : MotorReply(t)) /\ UNCHANGED motor_frame

\* The motor service started, with the chatbot as constructed.
InitMotor ==
  /\ Configured(FALSE, FALSE, FALSE, 0)
  /\ chat_history_timeout = ChatHistoryTimeout
  /\ max_blocks = MaxBuf
  /\ NoSamples
  /\ use_network_ollama = FALSE
  /\ question = <<>>
  /\ command_category = ""
  /\ tool_call = NoCall
  /\ executed = <<>>
  /\ spoken = [template |-> ""]
  /\ MotorConstructed(MaxMotorCommands)

SpecMotor == InitMotor /\ [][NextMotor]_vars

\* C39: whenever the robot is driving forward and an iteration of the
\* obstacle monitoring reads one of the sensors below 20 cm, that
\* iteration stops the motors (by stop or as the first step of the
\* avoidance): the forward drive is not left running.
C39_ObstacleStopsForward ==
  [][\A left \in Distances, right \in Distances :
       (/\ MonitorIteration(left, right)
        /\ is_moving_forward
        /\ motors = "forward"
        /\ (left < ObstacleDistanceCm \/ right < ObstacleDistanceCm))
       => motors' = "stop"]_vars

\* C40: once stop or explore_stop has been handled, and until a movement
\* command acts, both motors are stopped and explore_mode and
\* is_moving_forward are false, whatever the obstacle-monitoring thread
\* does, an avoidance in progress included.
C40_StopHolds ==
  last_command \in StopActions
  => (motors = "stop" /\ ~explore_mode /\ ~is_moving_forward)

====
